---- MODULE Spec2Model ----
(***************************************************************************)
(* Staging-to-main merge protocol of the Sinhala stories dataset:          *)
(*   - src/app.py, src/app2.py: upload_jsonl_to_pending writes one staging *)
(*     file per submission; src/app.py: get_merge_status resolves the      *)
(*     human-facing status from the staging listing and commit history.    *)
(*   - src/merge_pending_into_main.py: main / merge_and_push drain the     *)
(*     staging files into the main dataset.                                *)
(* The remote repository is the shared state: the staging files, the main  *)
(* dataset snapshot and the commit history.                                *)
(***************************************************************************)
EXTENDS Integers, Sequences, FiniteSets, TLC

VARIABLES
    clock,      \* wall clock, whole seconds (datetime.utcnow() at second resolution)
    staging,    \* remote repo: staging path -> file content (sequence of records)
    main_ds,    \* remote repo: the MainDataset snapshot (split "train"), a sequence of records
    history,    \* remote repo: commit history, most recent first
    run,        \* per orchestrator process: the locals of main() / merge_and_push()
    subs,       \* number of submissions committed so far
    nruns,      \* number of orchestrator runs started so far
    prev,       \* summary of the most recent successful publish
    status      \* the status resolver: its inputs and what get_merge_status returned

vars == <<clock, staging, main_ds, history, run, subs, nruns, prev, status>>

(***************************** bounds **************************************)
MaxClock == 1
MaxSubmissions == 2
MaxRuns == 2
MaxMain == 2

Stories == {"katha1"}
Runners == {1}

(************************* timestamps **************************************)
strftime_minutes(t) ==
    [d |-> t \div 86400, h |-> (t % 86400) \div 3600, m |-> (t % 3600) \div 60, s |-> 0]

\* datetime.strftime("%Y%m%dT%H%M%SZ"): the calendar fields of an instant;
\* days count from the model's epoch.
strftime(t) ==
    [d |-> t \div 86400, h |-> (t % 86400) \div 3600, m |-> (t % 3600) \div 60, s |-> t % 60]

ValidFields(f) == f.d >= 0 /\ f.h \in 0..23 /\ f.m \in 0..59 /\ f.s \in 0..59

strptime_12h(f) == f.d * 86400 + (f.h % 12) * 3600 + f.m * 60 + f.s

\* datetime.strptime(ts_str, "%Y%m%dT%H%M%SZ").replace(tzinfo=utc), as seconds
strptime(f) == f.d * 86400 + f.h * 3600 + f.m * 60 + f.s

(***************************** paths ***************************************)
PENDING_DIR == "pending"

\* f"{PENDING_DIR}/entry_{timestamp}.jsonl"
PendingPath(timestamp) ==
    [dirs |-> <<PENDING_DIR>>, stem |-> <<"entry_", timestamp>>, ext |-> ".jsonl"]

\* a jsonl file one directory below pending/, and a file of pending/ that is no jsonl
SubPath(timestamp) ==
    [dirs |-> <<PENDING_DIR, "sub">>, stem |-> <<"entry_", timestamp>>, ext |-> ".jsonl"]

NotesPath ==
    [dirs |-> <<PENDING_DIR>>, stem |-> <<"notes", [d |-> 0, h |-> 0, m |-> 0, s |-> 0]>>, ext |-> ".txt"]

\* files of the repository that are not staging entries (dataset shards, card)
OtherFiles ==
    << [dirs |-> <<>>, stem |-> <<"README", strftime(0)>>, ext |-> ".md"],
       [dirs |-> <<"data">>, stem |-> <<"train-00000", strftime(0)>>, ext |-> ".parquet"] >>

\* os.path.basename(filename)
basename(p) == [stem |-> p.stem, ext |-> p.ext]

Range(s) == {s[i] : i \in 1..Len(s)}

RECURSIVE Flatten(_)
Flatten(ss) == IF ss = <<>> THEN <<>> ELSE Head(ss) \o Flatten(Tail(ss))

\* the staging paths in the order the hub lists them (sorted by path, i.e. by timestamp)
RECURSIVE SortedPending(_, _)
SortedPending(S, t) ==
    IF t > MaxClock THEN <<>>
    ELSE (IF PendingPath(strftime(t)) \in S THEN <<PendingPath(strftime(t))>> ELSE <<>>)
         \o SortedPending(S, t + 1)

RECURSIVE SortedSub(_, _)
SortedSub(S, t) ==
    IF t > MaxClock THEN <<>>
    ELSE (IF SubPath(strftime(t)) \in S THEN <<SubPath(strftime(t))>> ELSE <<>>)
         \o SortedSub(S, t + 1)

\* api.list_repo_files(repo_id=REPO_ID, repo_type=REPO_TYPE): every file, sorted by path
list_repo_files ==
    OtherFiles \o SortedPending(DOMAIN staging, 0)
               \o (IF NotesPath \in DOMAIN staging THEN <<NotesPath>> ELSE <<>>)
               \o SortedSub(DOMAIN staging, 0)

IsPendingFileAnyExt(f) == Len(f.dirs) >= 1 /\ f.dirs[1] = PENDING_DIR

IsPendingFile(f) == Len(f.dirs) >= 1 /\ f.dirs[1] = PENDING_DIR /\ f.ext = ".jsonl"

\* [f for f in files if f.startswith(PENDING_DIR + "/") and f.endswith(".jsonl")]
list_pending_files(files) == SelectSeq(files, IsPendingFile)

(*************************** datasets **************************************)
NoneDs == [isNone |-> TRUE, rows |-> <<>>]
Ds(rows) == [isNone |-> FALSE, rows |-> rows]

\* datasets.concatenate_datasets
concatenate_datasets(dss) == Ds(Flatten([i \in 1..Len(dss) |-> dss[i].rows]))

\* download_file: copies the hub file to os.path.join(outdir, os.path.basename(filename))
\* and returns that target; tmp is the content of outdir.
download_target(filename) == basename(filename)

download_file(filename, tmp) == (download_target(filename) :> staging[filename]) @@ tmp

load_first_only(local_files, tmp) ==
    IF local_files = <<>> THEN NoneDs ELSE Ds(tmp[local_files[1]])

\* load_pending_datasets: one Dataset.from_json per local file, concatenated
load_pending_datasets(local_files, tmp) ==
    LET datasets == [i \in 1..Len(local_files) |-> Ds(tmp[local_files[i]])]
    IN  IF datasets = <<>> THEN NoneDs
        ELSE IF Len(datasets) = 1 THEN datasets[1]
        ELSE concatenate_datasets(datasets)

(**************************** commits **************************************)
\* f"Add pending submission {timestamp}"
AddMsg(timestamp) ==
    [marker |-> "Add pending submission", paren |-> FALSE, ts |-> timestamp, n |-> 0]
\* f"Merge pending submissions ({ts}) — merged {len(pending_ds)} entries"
MergeMsg(ts, n) ==
    [marker |-> "Merge pending submissions", paren |-> TRUE, ts |-> ts, n |-> n]
\* f"Cleanup processed pending files ({ts})"
CleanupMsg(ts) ==
    [marker |-> "Cleanup processed pending files", paren |-> TRUE, ts |-> ts, n |-> 0]

Commit(msg) == [message |-> msg, created_at |-> clock]

(************************ submission writers *******************************)
NoPrev == [set |-> FALSE, M |-> 0, N |-> 0, at |-> 0, paths |-> <<>>, rerun |-> FALSE, M0 |-> 0, N0 |-> 0]

\* upload_jsonl_to_pending of app.py (tag "none") and of app2.py (tag "pending"):
\* one record, one staging file named after the second of submission, one commit.
StagePayload(story, tag) ==
    LET timestamp == strftime(clock)
        payload == [story |-> story, timestamp_utc |-> timestamp, status |-> tag]
        filename == PendingPath(timestamp)
    IN  /\ subs < MaxSubmissions
        /\ staging' = (filename :> <<payload>>) @@ staging
        /\ history' = <<Commit(AddMsg(timestamp))>> \o history
        /\ subs' = subs + 1
        /\ UNCHANGED <<clock, main_ds, run, nruns, prev, status>>

upload_jsonl_to_pending(story) == StagePayload(story, "none")

upload_jsonl_to_pending_app2(story) == StagePayload(story, "pending")

Tick ==
    /\ clock < MaxClock
    /\ clock' = clock + 1
    /\ UNCHANGED <<staging, main_ds, history, run, subs, nruns, prev, status>>

(************************* merge orchestrator ******************************)
IdleRun ==
    [pc |-> "idle", pending |-> <<>>, idx |-> 1, tmp |-> <<>>, local_pending |-> <<>>,
     pending_ds |-> NoneDs, loaded |-> FALSE, main_rows |-> <<>>, merged |-> <<>>,
     ts |-> strftime(0), pushed |-> FALSE, failedAt |-> "",
     listedAt |-> 0, listedCount |-> 0, fetched |-> <<>>,
     histAtList |-> 0, histAtLoad |-> 0, histAtPush |-> 0]

Ended(r) == run[r].pc \in {"idle", "done", "aborted", "crashed"}

Goto(r, label) == run' = [run EXCEPT ![r].pc = label]

\* main() lines 87-94: list the repository, keep the staging paths
ListStep(r) ==
    /\ Ended(r)
    /\ nruns < MaxRuns
    /\ nruns' = nruns + 1
    /\ LET files == list_repo_files
           pending == list_pending_files(files)
       IN  run' = [run EXCEPT ![r] =
                [IdleRun EXCEPT !.pc = IF pending = <<>> THEN "done" ELSE "download",
                                !.pending = pending,
                                !.listedAt = subs,
                                !.histAtList = Len(history),
                                !.listedCount = Len(Flatten([i \in 1..Len(pending) |-> staging[pending[i]]]))]]
    /\ UNCHANGED <<clock, staging, main_ds, history, subs, prev, status>>

\* main() lines 96-99: one hub download per listed path
DownloadStep(r) ==
    /\ run[r].pc = "download"
    /\ LET fn == run[r].pending[run[r].idx]
           last == run[r].idx = Len(run[r].pending)
       IN  /\ fn \in DOMAIN staging
           /\ run' = [run EXCEPT ![r].tmp = download_file(fn, run[r].tmp),
                                 ![r].local_pending = Append(run[r].local_pending, download_target(fn)),
                                 ![r].fetched = Append(run[r].fetched, staging[fn]),
                                 ![r].idx = run[r].idx + 1,
                                 ![r].pc = IF last THEN "load" ELSE "download"]
    /\ UNCHANGED <<clock, staging, main_ds, history, subs, nruns, prev, status>>

\* main() lines 101-104
LoadPendingStep(r) ==
    /\ run[r].pc = "load"
    /\ LET pending_ds == load_pending_datasets(run[r].local_pending, run[r].tmp)
       IN  run' = [run EXCEPT ![r].pending_ds = pending_ds,
                              ![r].pc = IF pending_ds.isNone THEN "done" ELSE "load_main"]
    /\ UNCHANGED <<clock, staging, main_ds, history, subs, nruns, prev, status>>

merged_pending_only(main_rows, pending_ds) == pending_ds.rows

merged_rows_dedup(main_rows, pending_ds) ==
    main_rows \o SelectSeq(pending_ds.rows, LAMBDA rec : rec \notin Range(main_rows))

\* merge_and_push line 56
merged_rows(main_rows, pending_ds) == concatenate_datasets(<<Ds(main_rows), pending_ds>>).rows

LoadMainStepNoEmptyCheck(r) ==
    /\ run[r].pc = "load_main"
    /\ run' = [run EXCEPT ![r].loaded = TRUE, ![r].main_rows = main_ds,
                          ![r].histAtLoad = Len(history),
                          ![r].merged = merged_rows(main_ds, run[r].pending_ds),
                          ![r].ts = strftime(clock),
                          ![r].pc = "push"]
    /\ UNCHANGED <<clock, staging, main_ds, history, subs, nruns, prev, status>>

\* merge_and_push lines 48-63: load the main dataset, concatenate, stamp the message
LoadMainStep(r) ==
    /\ run[r].pc = "load_main"
    /\ IF run[r].pending_ds.isNone \/ Len(run[r].pending_ds.rows) = 0
       THEN run' = [run EXCEPT ![r].loaded = TRUE, ![r].main_rows = main_ds,
                               ![r].histAtLoad = Len(history), ![r].pc = "done"]
       ELSE run' = [run EXCEPT ![r].loaded = TRUE, ![r].main_rows = main_ds,
                               ![r].histAtLoad = Len(history),
                               ![r].merged = merged_rows(main_ds, run[r].pending_ds),
                               ![r].ts = strftime(clock),
                               ![r].pc = "push"]
    /\ UNCHANGED <<clock, staging, main_ds, history, subs, nruns, prev, status>>

merge_commit_msg_counts_files(r) == MergeMsg(run[r].ts, Len(run[r].pending))

\* merge_and_push line 63
merge_commit_msg(r) == MergeMsg(run[r].ts, Len(run[r].pending_ds.rows))

\* merge_and_push line 65: merged.push_to_hub, one commit replacing the snapshot
PushStep(r) ==
    /\ run[r].pc = "push"
    /\ main_ds' = run[r].merged
    /\ history' = <<Commit(merge_commit_msg(r))>> \o history
    /\ prev' = [set |-> TRUE, M |-> Len(main_ds), N |-> Len(run[r].pending_ds.rows),
                at |-> run[r].listedAt, paths |-> run[r].pending,
                rerun |-> prev.set /\ prev.at = subs /\ Range(prev.paths) \subseteq DOMAIN staging,
                M0 |-> prev.M, N0 |-> prev.N]
    /\ run' = [run EXCEPT ![r].pc = "cleanup", ![r].pushed = TRUE,
                          ![r].histAtPush = Len(history) + 1]
    /\ UNCHANGED <<clock, staging, subs, nruns, status>>

CleanupStepRelist(r) ==
    /\ run[r].pc = "cleanup"
    /\ staging' = <<>>
    /\ history' = <<Commit(CleanupMsg(run[r].ts))>> \o history
    /\ Goto(r, "done")
    /\ UNCHANGED <<clock, main_ds, subs, nruns, prev, status>>

\* Names bound inside merge_and_push (its parameters and assignments) and at module level.
MergeAndPushLocals ==
    {"pending_ds", "pending_files", "main_ds", "merged", "ts", "commit_msg",
     "cleanup_operations", "file_path"}

ModuleGlobals ==
    {"os", "glob", "json", "tempfile", "HfApi", "hf_hub_download", "load_dataset",
     "Dataset", "concatenate_datasets", "datetime", "HF_TOKEN", "REPO_ID", "REPO_TYPE",
     "PENDING_DIR", "api", "list_repo_files", "list_pending_files", "download_file",
     "load_pending_datasets", "merge_and_push", "main"}

NameResolves(name) == name \in MergeAndPushLocals \cup ModuleGlobals

\* merge_and_push lines 70-84: the loop reads the name `pending`; an unbound name
\* raises NameError and the process ends before any delete commit.
CleanupStep(r) ==
    /\ run[r].pc = "cleanup"
    /\ IF NameResolves("pending")
       THEN /\ staging' = [p \in DOMAIN staging \ Range(run[r].pending) |-> staging[p]]
            /\ history' = IF run[r].pending = <<>> THEN history
                          ELSE <<Commit(CleanupMsg(run[r].ts))>> \o history
            /\ Goto(r, "done")
       ELSE /\ Goto(r, "crashed")
            /\ UNCHANGED <<staging, history>>
    /\ UNCHANGED <<clock, main_ds, subs, nruns, prev, status>>

RemoteSteps == {"download", "load_main", "push"}

\* Dataset.from_json raises on a file it cannot decode
FallibleSteps == RemoteSteps \cup {"load"}

FailListing(r) ==
    /\ Ended(r)
    /\ nruns < MaxRuns
    /\ nruns' = nruns + 1
    /\ run' = [run EXCEPT ![r] = [IdleRun EXCEPT !.pc = "aborted", !.failedAt = "list"]]
    /\ UNCHANGED <<clock, staging, main_ds, history, subs, prev, status>>

FailStepDeletes(r) ==
    /\ run[r].pc \in FallibleSteps
    /\ run' = [run EXCEPT ![r].pc = "aborted", ![r].failedAt = run[r].pc]
    /\ staging' = [p \in DOMAIN staging \ Range(run[r].pending) |-> staging[p]]
    /\ history' = <<Commit(CleanupMsg(run[r].ts))>> \o history
    /\ UNCHANGED <<clock, main_ds, subs, nruns, prev, status>>

FailStepPartialPublish(r) ==
    /\ run[r].pc \in FallibleSteps
    /\ run' = [run EXCEPT ![r].pc = "aborted", ![r].failedAt = run[r].pc]
    /\ main_ds' = IF run[r].pc = "push" THEN run[r].merged ELSE main_ds
    /\ UNCHANGED <<clock, staging, history, subs, nruns, prev, status>>

\* a remote call raises (network, authentication, missing file): nothing catches it
\* in main(), so the process ends where it stands.
FailStep(r) ==
    /\ run[r].pc \in FallibleSteps
    /\ run' = [run EXCEPT ![r].pc = "aborted", ![r].failedAt = run[r].pc]
    /\ UNCHANGED <<clock, staging, main_ds, history, subs, nruns, prev, status>>

(***************************** the system **********************************)
SeedRecord(i) == [story |-> "seed", timestamp_utc |-> strftime(i), status |-> "none"]

NoStatus == [asked |-> FALSE]

Init ==
    /\ clock = 0
    /\ staging = <<>>
    /\ main_ds \in {[i \in 1..m |-> SeedRecord(i)] : m \in 0..MaxMain}
    /\ history = <<>>
    /\ run = [r \in Runners |-> IdleRun]
    /\ subs = 0
    /\ nruns = 0
    /\ prev = NoPrev
    /\ status = NoStatus

Next ==
    \/ Tick
    \/ \E story \in Stories : upload_jsonl_to_pending(story)
    \/ \E story \in Stories : upload_jsonl_to_pending_app2(story)
    \/ \E r \in Runners : ListStep(r)
    \/ \E r \in Runners : FailListing(r)
    \/ \E r \in Runners : DownloadStep(r)
    \/ \E r \in Runners : LoadPendingStep(r)
    \/ \E r \in Runners : LoadMainStep(r)
    \/ \E r \in Runners : PushStep(r)
    \/ \E r \in Runners : CleanupStep(r)
    \/ \E r \in Runners : FailStep(r)

Spec == Init /\ [][Next]_vars

(******************** the orchestrator on a given repository ***************)
\* The orchestrator reads whatever the dataset repository holds under pending/:
\* jsonl files of any number of lines, in pending/ or below it, and other files.
MaxRecords == 2

BatchPaths ==
    {PendingPath(strftime(t)) : t \in 0..MaxClock} \cup {SubPath(strftime(0)), NotesPath}

\* the n lines of a jsonl file, as Dataset.from_json decodes them
FileRecords(p, n) ==
    [k \in 1..n |-> [story |-> IF Len(p.dirs) > 1 THEN "katha2" ELSE "katha1",
                     timestamp_utc |-> p.stem[2],
                     status |-> IF k = 1 THEN "none" ELSE "pending"]]

BatchStagings ==
    {[p \in S |-> IF p = NotesPath THEN <<>> ELSE FileRecords(p, cnt[p])] :
        S \in SUBSET BatchPaths, cnt \in [BatchPaths -> 0..MaxRecords]}

InitBatch ==
    /\ clock = 0
    /\ staging \in BatchStagings
    /\ main_ds \in {[i \in 1..m |-> SeedRecord(i)] : m \in 0..MaxMain}
    /\ history = <<>>
    /\ run = [r \in Runners |-> IdleRun]
    /\ subs = 0
    /\ nruns = 0
    /\ prev = NoPrev
    /\ status = NoStatus

NextBatch ==
    \/ \E r \in Runners : ListStep(r)
    \/ \E r \in Runners : FailListing(r)
    \/ \E r \in Runners : DownloadStep(r)
    \/ \E r \in Runners : LoadPendingStep(r)
    \/ \E r \in Runners : LoadMainStep(r)
    \/ \E r \in Runners : PushStep(r)
    \/ \E r \in Runners : CleanupStep(r)
    \/ \E r \in Runners : FailStep(r)

SpecBatch == InitBatch /\ [][NextBatch]_vars

(*************************** status resolver *******************************)
Hour == 3600
MaxPending == 1
MaxCommits == 2

\* "Merge pending submissions" in commit_msg (an empty or missing message is falsy)
HasMarkerAny(msg) == TRUE

HasMarker(msg) == msg.marker = "Merge pending submissions"

\* re.search(r'\((\d{8}T\d{6}Z)\)', commit_msg) followed by strptime: the message
\* holds a parenthesised timestamp (paren) whose fields strptime accepts.
EmbeddedParsable(msg) == msg.paren /\ ValidFields(msg.ts)

\* The time field of a commit, by the shape lines 93-123 distinguish:
\*   none        no attribute / key among created_at, date, timestamp, ...
\*   falsy       present but None, "" or 0
\*   aware       datetime with tzinfo          naive      datetime without tzinfo
\*   isoZ        ISO string ending in Z        isoNaive   ISO string without offset
\*   isoBad      string with a 'T' that fromisoformat rejects
\*   strNoT      string without 'T'            other      any other type
\*   unix        number of seconds             unixHuge   number fromtimestamp overflows on
DateReturnsNever(date) == FALSE

DateReturns(date) == date.kind \in {"aware", "naive", "isoZ", "isoNaive", "unix"}

DateRaises(date) == date.kind = "unixHuge"

\* the datetime lines 107-123 return: its instant and whether it carries a tzinfo
DateValue(date) == [aware |-> date.kind \in {"aware", "isoZ", "unix"}, t |-> date.t]

NotFound(err) == [found |-> FALSE, dt |-> [aware |-> FALSE, t |-> 0], err |-> err]
Found(dt) == [found |-> TRUE, dt |-> dt, err |-> ""]

\* get_last_merge_timestamp lines 76-137: the scan of the commit list
RECURSIVE ScanCommits(_)
ScanCommits(commits_list) ==
    IF commits_list = <<>> THEN NotFound("No merge commits found in repository history")
    ELSE LET commit == Head(commits_list)
             commit_msg == commit.message
         IN  IF commit_msg.marker # "" /\ HasMarker(commit_msg)
             THEN IF DateReturns(commit.date) THEN Found(DateValue(commit.date))
                  ELSE IF DateRaises(commit.date)
                  THEN NotFound("Error retrieving commits")
                  ELSE IF EmbeddedParsable(commit_msg)
                  THEN Found([aware |-> TRUE, t |-> strptime(commit_msg.ts)])
                  ELSE ScanCommits(Tail(commits_list))
             ELSE ScanCommits(Tail(commits_list))

\* get_last_merge_timestamp: api is [has_list_repo_commits, outcome of the call]
get_last_merge_timestamp(api) ==
    IF ~api.has_list_repo_commits THEN NotFound("Commit listing method not available")
    ELSE CASE api.commits.kind = "ok" -> ScanCommits(api.commits.list)
           [] api.commits.kind = "http401" -> NotFound("Authentication failed. Check your Hugging Face token.")
           [] api.commits.kind = "http403" -> NotFound("Access forbidden. Token may lack repository permissions.")
           [] api.commits.kind = "http404" -> NotFound("Repository or commit endpoint not found.")
           [] api.commits.kind = "http500" -> NotFound("HTTP error 500")
           [] api.commits.kind = "attribute" -> NotFound("API method error")
           [] OTHER -> NotFound("Error retrieving commits")

\* get_pending_stories_count: None when the listing call raises
get_pending_stories_count(api) ==
    IF api.listing.ok THEN [none |-> FALSE, count |-> api.listing.count]
    ELSE [none |-> TRUE, count |-> 0]

Result(state, message, count, calls) ==
    [state |-> state, message |-> message, count |-> count, calls |-> calls]

\* an exception leaving the code, with its str(e)
Raise(exc, count, calls) == Result("raise", exc, count, calls)

\* lines 183-184 of get_merge_status: except Exception as e
Caught(r) ==
    IF r.state = "raise"
    THEN Result("Error", "Error determining status: " \o r.message, r.count, r.calls)
    ELSE r

\* lines 174-182 of get_merge_status, reached with pending_count > 0
AfterCount(api, now, pending_count) ==
    LET last_merge == get_last_merge_timestamp(api)
        calls == IF api.has_list_repo_commits
                 THEN <<"list_repo_files", "list_repo_commits">> ELSE <<"list_repo_files">>
    IN  IF last_merge.found /\ last_merge.dt.aware
        \* line 178 parses as (A if tzinfo is None else last_merge).total_seconds():
        \* a datetime has no total_seconds, so the line raises AttributeError
        THEN Raise("'datetime.datetime' object has no attribute 'total_seconds'",
                   pending_count, calls)
        ELSE IF last_merge.found /\ now - last_merge.dt.t < Hour
        THEN Result("Processing", "Merge completed recently. new stories pending.", pending_count, calls)
        ELSE Result("Pending", "files waiting to be merged into dataset.", pending_count, calls)

\* get_merge_status lines 166-182: the body of the try block
merge_status_body(api, now) ==
    LET pending_count == get_pending_stories_count(api)
    IN  IF pending_count.none
        THEN Result("Unknown", "Unable to determine status", 0, <<"list_repo_files">>)
        ELSE IF pending_count.count = 0
        THEN Result("Idle", "No files waiting to merge. All submitted stories are in the dataset.",
                    0, <<"list_repo_files">>)
        ELSE AfterCount(api, now, pending_count.count)

get_merge_status_history_first(api, now) ==
    LET pc == get_pending_stories_count(api)
    IN  IF pc.none THEN Result("Unknown", "Unable to determine status", 0, <<"list_repo_files">>)
        ELSE LET r == Caught(AfterCount(api, now, pc.count))
             IN  IF pc.count = 0 /\ r.state = "Pending"
                 THEN Result("Idle", "No files waiting to merge. All submitted stories are in the dataset.",
                             0, r.calls)
                 ELSE r

get_merge_status_no_handler(api, now) == merge_status_body(api, now)

\* get_merge_status lines 163-184
get_merge_status(api, now) == Caught(merge_status_body(api, now))

(* The inputs the resolver is run on. *)
Now == 2 * Hour
Ages == {Hour - 1, Hour}
Stamp(age) == strftime(Now - age)
BadStamp == [d |-> 0, h |-> 25, m |-> 0, s |-> 0]

MarkerMessages ==
    {[marker |-> "Merge pending submissions", paren |-> FALSE, ts |-> Stamp(Hour), n |-> 1],
     [marker |-> "Merge pending submissions", paren |-> TRUE, ts |-> BadStamp, n |-> 1]}
    \cup {[marker |-> "Merge pending submissions", paren |-> TRUE, ts |-> Stamp(a), n |-> 1] : a \in Ages}

OtherMessages ==
    {[marker |-> "", paren |-> FALSE, ts |-> Stamp(Hour), n |-> 0],
     [marker |-> "Cleanup processed pending files", paren |-> TRUE, ts |-> Stamp(Hour - 1), n |-> 0]}

Dates ==
    {[kind |-> k, t |-> 0] : k \in {"none", "falsy", "isoBad", "strNoT", "other", "unixHuge"}}
    \cup {[kind |-> k, t |-> Now - a] : k \in {"aware", "naive"}, a \in Ages}
    \cup {[kind |-> k, t |-> Now - (Hour - 1)] : k \in {"isoZ", "isoNaive", "unix"}}

CommitObjects ==
    {[message |-> m, date |-> d] : m \in MarkerMessages, d \in Dates}
    \cup {[message |-> m, date |-> d] : m \in OtherMessages,
                                        d \in {[kind |-> "none", t |-> 0], [kind |-> "naive", t |-> Now - (Hour - 1)]}}

Histories == UNION {[1..n -> CommitObjects] : n \in 0..MaxCommits}

CommitOutcomes ==
    {[kind |-> k, list |-> <<>>] : k \in {"http401", "http403", "http404", "http500", "attribute", "exception"}}
    \cup {[kind |-> "ok", list |-> h] : h \in Histories}

Listings == {[ok |-> FALSE, count |-> 0]} \cup {[ok |-> TRUE, count |-> c] : c \in 0..MaxPending}

Apis ==
    {[listing |-> l, has_list_repo_commits |-> FALSE, commits |-> [kind |-> "exception", list |-> <<>>]] : l \in Listings}
    \cup {[listing |-> l, has_list_repo_commits |-> TRUE, commits |-> c] : l \in Listings, c \in CommitOutcomes}

NoResult == Result("", "", 0, <<>>)
NoInstant == NotFound("")

InitStatus ==
    /\ clock = 0
    /\ staging = <<>>
    /\ main_ds = <<>>
    /\ history = <<>>
    /\ run = [r \in Runners |-> IdleRun]
    /\ subs = 0
    /\ nruns = 0
    /\ prev = NoPrev
    /\ status \in {[asked |-> FALSE, api |-> a, now |-> Now, last_merge |-> NoInstant, out |-> NoResult]
                       : a \in Apis}

\* app.py lines 214-218: the status refresh calls get_last_merge_timestamp and
\* get_merge_status against the same repository
Resolve ==
    /\ ~status.asked
    /\ status' = [status EXCEPT !.asked = TRUE,
                                !.last_merge = get_last_merge_timestamp(status.api),
                                !.out = get_merge_status(status.api, status.now)]
    /\ UNCHANGED <<clock, staging, main_ds, history, run, subs, nruns, prev>>

NextStatus == Resolve

SpecStatus == InitStatus /\ [][NextStatus]_vars

(******************** the repository, merged and watched *******************)
\* What the status page's HfApi returns for the repository as it stands: the
\* count of pending/*.jsonl files (or a failing listing) and the commits, each
\* with its message and its created_at, a timezone-aware datetime.
RepoCommits ==
    [i \in 1..Len(history) |->
        [message |-> history[i].message,
         date |-> [kind |-> "aware", t |-> history[i].created_at]]]

RepoApi(listing_ok, commits_ok) ==
    [listing |-> IF listing_ok
                 THEN [ok |-> TRUE, count |-> Len(list_pending_files(list_repo_files))]
                 ELSE [ok |-> FALSE, count |-> 0],
     has_list_repo_commits |-> TRUE,
     commits |-> IF commits_ok THEN [kind |-> "ok", list |-> RepoCommits]
                 ELSE [kind |-> "exception", list |-> <<>>]]

\* app.py lines 214-218 against the repository; either remote call may fail
RefreshStatus(listing_ok, commits_ok) ==
    /\ status' = [asked |-> TRUE, api |-> RepoApi(listing_ok, commits_ok), now |-> clock,
                  last_merge |-> get_last_merge_timestamp(RepoApi(listing_ok, commits_ok)),
                  out |-> get_merge_status(RepoApi(listing_ok, commits_ok), clock)]
    /\ UNCHANGED <<clock, staging, main_ds, history, run, subs, nruns, prev>>

InitRepo ==
    /\ clock = 0
    /\ staging \in BatchStagings
    /\ main_ds = [i \in 1..MaxMain |-> SeedRecord(i)]
    /\ history = <<>>
    /\ run = [r \in Runners |-> IdleRun]
    /\ subs = 0
    /\ nruns = 0
    /\ prev = NoPrev
    /\ status = NoStatus

NextRepo ==
    \/ \E r \in Runners : ListStep(r)
    \/ \E r \in Runners : FailListing(r)
    \/ \E r \in Runners : DownloadStep(r)
    \/ \E r \in Runners : LoadPendingStep(r)
    \/ \E r \in Runners : LoadMainStep(r)
    \/ \E r \in Runners : PushStep(r)
    \/ \E r \in Runners : CleanupStep(r)
    \/ \E r \in Runners : FailStep(r)
    \/ \E listing_ok \in BOOLEAN, commits_ok \in BOOLEAN : RefreshStatus(listing_ok, commits_ok)

SpecRepo == InitRepo /\ [][NextRepo]_vars

(******************** two orchestrator processes ***************************)
\* main() takes no lock: a second process (a manual run next to the scheduled
\* one) runs the same steps against the same repository. The two runs are
\* followed within one second of the clock.
Runners2 == {1, 2}

InitConc ==
    /\ clock = 0
    /\ staging = <<>>
    /\ main_ds \in {[i \in 1..m |-> SeedRecord(i)] : m \in 0..MaxMain}
    /\ history = <<>>
    /\ run = [r \in Runners2 |-> IdleRun]
    /\ subs = 0
    /\ nruns = 0
    /\ prev = NoPrev
    /\ status = NoStatus

NextConc ==
    \/ \E story \in Stories : upload_jsonl_to_pending(story)
    \/ \E r \in Runners2 : ListStep(r)
    \/ \E r \in Runners2 : FailListing(r)
    \/ \E r \in Runners2 : DownloadStep(r)
    \/ \E r \in Runners2 : LoadPendingStep(r)
    \/ \E r \in Runners2 : LoadMainStep(r)
    \/ \E r \in Runners2 : PushStep(r)
    \/ \E r \in Runners2 : CleanupStep(r)
    \/ \E r \in Runners2 : FailStep(r)

SpecConc == InitConc /\ [][NextConc]_vars

(******************** merge message: written, then read ********************)
MaxDay == 1
MaxN == 3

\* instants whose calendar fields take their extreme values
Instants ==
    {d * 86400 + h * 3600 + m * 60 + sec :
        d \in 0..MaxDay, h \in {0, 23}, m \in {0, 59}, sec \in {0, 59}}

InitRoundTrip ==
    /\ clock \in Instants
    /\ staging = <<>>
    /\ main_ds = <<>>
    /\ history = <<>>
    /\ run = [r \in Runners |-> IdleRun]
    /\ subs = 0
    /\ nruns = 0
    /\ prev = NoPrev
    /\ status \in {[asked |-> FALSE, phase |-> "start", N |-> n, last_merge |-> NoInstant]
                       : n \in 1..MaxN}

\* merge_and_push lines 62-65: ts = utcnow().strftime(...), the message, the commit
FormatMessage ==
    /\ status.phase = "start"
    /\ history' = <<Commit(MergeMsg(strftime(clock), status.N))>> \o history
    /\ status' = [status EXCEPT !.phase = "formatted"]
    /\ UNCHANGED <<clock, staging, main_ds, run, subs, nruns, prev>>

\* get_last_merge_timestamp lines 125-134 on that message: the commit is handed
\* over without a time field, so the timestamp is read from the message text
ParseMessage ==
    /\ status.phase = "formatted"
    /\ LET commit == [message |-> Head(history).message, date |-> [kind |-> "none", t |-> 0]]
           api == [listing |-> [ok |-> TRUE, count |-> 0], has_list_repo_commits |-> TRUE,
                   commits |-> [kind |-> "ok", list |-> <<commit>>]]
       IN  status' = [status EXCEPT !.phase = "parsed",
                                    !.last_merge = get_last_merge_timestamp(api)]
    /\ UNCHANGED <<clock, staging, main_ds, history, run, subs, nruns, prev>>

NextRoundTrip == FormatMessage \/ ParseMessage

SpecRoundTrip == InitRoundTrip /\ [][NextRoundTrip]_vars

(******************************* claims ************************************)
Published(r) == run[r].pc = "push" /\ run'[r].pc = "cleanup"

IsMergeCommit(c) == c.message.marker = "Merge pending submissions"
IsCleanupCommit(c) == c.message.marker = "Cleanup processed pending files"

\* C1: when a run's publish commit succeeds, the MainDataset becomes the old
\* MainDataset followed by the records of the listed staging entries, in listing
\* order: its size grows by exactly the N >= 1 records those entries hold.
C1_PublishAppendsBatch ==
    [][\A r \in Runners : Published(r) =>
          /\ main_ds' = main_ds \o Flatten(run[r].fetched)
          /\ run[r].listedCount >= 1
          /\ Len(main_ds') = Len(main_ds) + run[r].listedCount]_vars

C1_Witness ==
    \E r \in Runners :
        /\ run[r].pc = "cleanup"
        /\ Len(run[r].pending) = 2
        /\ prev.M >= 1
        /\ Len(main_ds) = prev.M + 2

\* C2: when a run whose publish succeeded has ended, none of the staging entries
\* it listed is left in the staging namespace.
C2_CleanupDeletesConsumed ==
    \A r \in Runners :
        (run[r].pushed /\ run[r].pc \in {"done", "crashed"})
            => Range(run[r].pending) \cap DOMAIN staging = {}

\* C3: a staging entry disappears only when its records are in the published
\* MainDataset, and every cleanup commit follows the merge commit of the same run.
C3_DeleteOnlyAfterPublish ==
    /\ [][\A p \in DOMAIN staging \ DOMAIN staging' :
             Range(staging[p]) \subseteq Range(main_ds)]_vars
    /\ [](\A i \in 1..Len(history) :
             IsCleanupCommit(history[i]) =>
                 \E j \in (i + 1)..Len(history) :
                     /\ IsMergeCommit(history[j])
                     /\ history[j].message.ts = history[i].message.ts)

C3_Witness ==
    \E r \in Runners :
        /\ run[r].pc = "aborted"
        /\ run[r].failedAt = "push"
        /\ run[r].pending # <<>>
        /\ Range(run[r].pending) \subseteq DOMAIN staging
        /\ \A i \in 1..Len(history) : ~IsCleanupCommit(history[i])

\* C4: a publish of N records onto M whose staging entries were not cleaned up,
\* followed with no submission in between by another whole run, leaves M + 2N.
C4_RerunDoubleCounts ==
    [][\A r \in Runners :
          (/\ Published(r)
           /\ prev.set
           /\ prev.at = subs
           /\ Range(prev.paths) \subseteq DOMAIN staging)
          => Len(main_ds') = prev.M + 2 * prev.N]_vars

C4_Witness ==
    /\ prev.rerun
    /\ prev.N0 >= 1
    /\ prev.M0 >= 1
    /\ Len(main_ds) = prev.M0 + 2 * prev.N0
    /\ \E r \in Runners : run[r].pc = "crashed"

\* C5: with a single runner the size of the MainDataset never decreases.
C5_MainNeverShrinks == [][Len(main_ds') >= Len(main_ds)]_vars

C5_Witness ==
    /\ prev.set
    /\ prev.M = 2
    /\ prev.N = 1
    /\ Len(main_ds) = 3
    /\ \E r \in Runners : run[r].pc = "crashed"

(* What the claims about the resolver say of a commit, stated apart from the scan. *)
SaysMerge(msg) == msg.marker = "Merge pending submissions"
UsableTimeField(date) == date.kind \in {"aware", "naive", "isoZ", "isoNaive", "unix"}
Obtainable(commit) ==
    SaysMerge(commit.message)
    /\ (UsableTimeField(commit.date) \/ (commit.message.paren /\ ValidFields(commit.message.ts)))
MergeInstant(commit) ==
    IF UsableTimeField(commit.date) THEN commit.date.t ELSE strptime(commit.message.ts)

Asked == status.asked
CountPositive == status.api.listing.ok /\ status.api.listing.count > 0
HistoryRead == status.api.has_list_repo_commits /\ status.api.commits.kind = "ok"

\* C6: with pending count > 0 the state is Processing when the most recent merge
\* commit is less than an hour old and Pending when it is an hour old or older,
\* whatever form its timestamp takes.
C6_RecentMergeIsProcessing ==
    (Asked /\ CountPositive /\ HistoryRead
     /\ status.api.commits.list # <<>> /\ Obtainable(status.api.commits.list[1]))
    => LET age == status.now - MergeInstant(status.api.commits.list[1])
       IN  status.out.state = IF age < Hour THEN "Processing" ELSE "Pending"

\* C7: with pending count > 0 and a history holding no commit a merge timestamp
\* can be obtained from, the state is Pending.
C7_NoMergeTimestampIsPending ==
    (Asked /\ CountPositive /\ HistoryRead
     /\ \A i \in 1..Len(status.api.commits.list) : ~Obtainable(status.api.commits.list[i]))
    => status.out.state = "Pending"

C7_Witness ==
    /\ Asked /\ CountPositive /\ HistoryRead
    /\ Len(status.api.commits.list) = 2
    /\ SaysMerge(status.api.commits.list[1].message)
    /\ status.api.commits.list[1].message.paren
    /\ ~SaysMerge(status.api.commits.list[2].message)
    /\ status.api.commits.list[2].date.kind = "naive"
    /\ \A i \in 1..2 : ~Obtainable(status.api.commits.list[i])
    /\ status.out.state = "Pending"

\* C8: a pending count of 0 gives Idle, and the commit history is not read.
C8_ZeroPendingIsIdle ==
    (Asked /\ status.api.listing.ok /\ status.api.listing.count = 0)
    => /\ status.out.state = "Idle"
       /\ "list_repo_commits" \notin Range(status.out.calls)

C8_Witness ==
    /\ Asked /\ status.api.listing.ok /\ status.api.listing.count = 0
    /\ HistoryRead
    /\ status.api.commits.list # <<>>
    /\ Obtainable(status.api.commits.list[1])
    /\ status.api.commits.list[1].date.kind = "naive"
    /\ status.now - status.api.commits.list[1].date.t < Hour
    /\ status.out.state = "Idle"

\* C9: with pending count > 0 and no commit-listing capability the state is
\* Unknown, with a reason.
C9_NoCapabilityIsUnknown ==
    (Asked /\ CountPositive /\ ~status.api.has_list_repo_commits)
    => status.out.state = "Unknown" /\ status.out.message # ""

\* C10: a failed remote call (the staging listing, or the commit-history call when
\* pending count > 0) gives Unknown or Error, never Idle, Pending or Processing.
C10_RemoteFailureIsUnknownOrError ==
    (Asked /\ (\/ ~status.api.listing.ok
               \/ (CountPositive /\ status.api.has_list_repo_commits
                   /\ status.api.commits.kind # "ok")))
    => status.out.state \in {"Unknown", "Error"} /\ status.out.message # ""

\* C11: get_merge_status always returns one of the five states with a message,
\* whatever the listing, the capability, the history outcome and the commits are;
\* no exception leaves it.
C11_ResolverIsTotal ==
    Asked => /\ status.out.state \in {"Idle", "Pending", "Processing", "Unknown", "Error"}
             /\ status.out.message # ""

C11_Witness ==
    /\ Asked /\ CountPositive /\ HistoryRead
    /\ status.last_merge.found
    /\ status.last_merge.dt.aware
    /\ status.out.state = "Error"

(* The commits of a history that decide the scan, stated apart from it. *)
Matching(list) == {i \in 1..Len(list) : SaysMerge(list[i].message)}
First(S) == CHOOSE i \in S : \A j \in S : i <= j
Aborts(commit) == SaysMerge(commit.message) /\ commit.date.kind = "unixHuge"
Yields(commit) == Obtainable(commit) /\ ~Aborts(commit)
Decisive(list) == {i \in 1..Len(list) : Yields(list[i]) \/ Aborts(list[i])}

\* C18 as stated: the timestamp returned is that of the most recent commit whose
\* message matches the marker (its time field, else its embedded timestamp); an
\* older matching commit is never used.
C18_MostRecentMatchOnly ==
    (Asked /\ HistoryRead /\ status.last_merge.found)
    => /\ Matching(status.api.commits.list) # {}
       /\ status.last_merge.dt.t
            = MergeInstant(status.api.commits.list[First(Matching(status.api.commits.list))])

\* C18 amended: the timestamp returned is that of the first matching commit that
\* yields one (a usable time field wins over the embedded timestamp); matching
\* commits that yield none are skipped, and a matching commit whose numeric time
\* field overflows ends the scan with nothing.
C18_FirstYieldingMatch ==
    (Asked /\ HistoryRead)
    => LET list == status.api.commits.list
       IN  IF Decisive(list) = {} \/ Aborts(list[First(Decisive(list))])
           THEN ~status.last_merge.found
           ELSE /\ status.last_merge.found
                /\ status.last_merge.dt.t = MergeInstant(list[First(Decisive(list))])

C18_Witness ==
    /\ Asked /\ HistoryRead
    /\ Len(status.api.commits.list) = 2
    /\ \A i \in 1..2 : Yields(status.api.commits.list[i])
    /\ status.api.commits.list[1].date.kind = "aware"
    /\ status.api.commits.list[1].message.paren
    /\ ValidFields(status.api.commits.list[1].message.ts)
    /\ strptime(status.api.commits.list[1].message.ts) # status.api.commits.list[1].date.t
    /\ status.api.commits.list[2].date.t # status.api.commits.list[1].date.t
    /\ UsableTimeField(status.api.commits.list[2].date)
    /\ status.last_merge.found
    /\ status.last_merge.dt.t = status.api.commits.list[1].date.t

\* C13: the staging path of a submission is a function of its second alone: the
\* submission writes pending/entry_<second>.jsonl holding exactly its one record
\* and touches no other path; an earlier submission wrote the same path exactly
\* when it was made in the same second, and then only the later record remains.
Submitted == subs' = subs + 1

IsAddCommit(c) == c.message.marker = "Add pending submission"

C13_PathBySecond ==
    [][Submitted =>
        LET new == Head(history')
            p == PendingPath(new.message.ts)
        IN  /\ history' = <<new>> \o history
            /\ IsAddCommit(new)
            /\ DOMAIN staging' = DOMAIN staging \cup {p}
            /\ Len(staging'[p]) = 1
            /\ staging'[p][1].timestamp_utc = new.message.ts
            /\ \A q \in DOMAIN staging \ {p} : staging'[q] = staging[q]
            /\ \A i \in 1..Len(history) :
                  IsAddCommit(history[i]) =>
                     (PendingPath(history[i].message.ts) = p
                        <=> history[i].created_at = new.created_at)]_vars

C13_Witness ==
    /\ subs = 2
    /\ Len(history) >= 2
    /\ IsAddCommit(history[1]) /\ IsAddCommit(history[2])
    /\ history[1].created_at = history[2].created_at
    /\ DOMAIN staging = {PendingPath(history[1].message.ts)}
    /\ Len(staging[PendingPath(history[1].message.ts)]) = 1

\* C15: every step a run takes after its listing keeps each staging path that is
\* not in that listing, with its content, and the records such a path holds are
\* not among the records the run's publish appends.
RunStep(r) == run'[r] # run[r] /\ ~Ended(r)

Appended == SubSeq(main_ds', Len(main_ds) + 1, Len(main_ds'))

C15_UnlistedUntouched ==
    [][\A r \in Runners :
          RunStep(r) =>
             \A p \in DOMAIN staging \ Range(run[r].pending) :
                /\ p \in DOMAIN staging'
                /\ staging'[p] = staging[p]
                /\ Published(r) => Range(staging[p]) \cap Range(Appended) = {}]_vars

C15_Witness ==
    \E r \in Runners :
        /\ run[r].pc = "crashed"
        /\ run[r].pushed
        /\ run[r].listedAt < subs
        /\ \E p \in DOMAIN staging :
              /\ p \notin Range(run[r].pending)
              /\ Range(staging[p]) \cap Range(main_ds) = {}

\* C17: a run that fails at the listing, a fetch, the decoding, the load of the
\* main dataset or the publish has published nothing, and no step of a run before
\* its successful publish changes the main dataset, the staging namespace or the
\* history.
C17_FailureAbortsWhole ==
    [][\A r \in Runners :
          (run'[r] # run[r] /\ ~Published(r) /\ run[r].pc # "cleanup")
          => /\ main_ds' = main_ds
             /\ staging' = staging
             /\ history' = history
             /\ run'[r].pc = "aborted" => ~run'[r].pushed]_vars

C17_Witness ==
    \E r \in Runners :
        /\ run[r].pc = "aborted"
        /\ run[r].failedAt \in {"load", "load_main"}
        /\ run[r].fetched # <<>>
        /\ ~run[r].pushed
        /\ Range(run[r].pending) \subseteq DOMAIN staging
        /\ Range(Flatten(run[r].fetched)) \cap Range(main_ds) = {}

\* C16 as stated: once a run has decoded its downloads, the pending batch is the
\* concatenation, in listing order, of the records of every listed path, each
\* path contributing its own records once.
C16_BatchIsListedRecords ==
    \A r \in Runners :
        (run[r].pc = "load_main" /\ Range(run[r].pending) \subseteq DOMAIN staging)
        => run[r].pending_ds.rows
             = Flatten([i \in 1..Len(run[r].pending) |-> staging[run[r].pending[i]]])

(* The count a merge message carries, summed over a history. *)
RECURSIVE SumN(_)
SumN(h) ==
    IF h = <<>> THEN 0
    ELSE (IF IsMergeCommit(Head(h)) THEN Head(h).message.n ELSE 0) + SumN(Tail(h))

\* C19: a publish adds exactly one commit, whose message is the merge marker with
\* the run's timestamp and N = the number of records of the pending batch = the
\* growth of the main dataset at that commit; the main dataset changes in no
\* other way, so its growth equals the sum of the N of the merge commits.
C19_MessageCountsRecords ==
    [][/\ \A r \in Runners :
             Published(r)
             => /\ Len(history') = Len(history) + 1
                /\ Tail(history') = history
                /\ Head(history').message.marker = "Merge pending submissions"
                /\ Head(history').message.paren
                /\ Head(history').message.ts = run[r].ts
                /\ Head(history').message.n = Len(run[r].pending_ds.rows)
                /\ Head(history').message.n = Len(main_ds') - Len(main_ds)
       /\ main_ds' # main_ds => \E r \in Runners : Published(r)
       /\ Len(main_ds') - SumN(history') = Len(main_ds) - SumN(history)]_vars

C19_Witness ==
    /\ Len(history) = 2
    /\ IsMergeCommit(history[1]) /\ IsMergeCommit(history[2])
    /\ \E r \in Runners :
          /\ run[r].pushed
          /\ Len(run[r].pending) = 1
          /\ history[1].message.n = 2
          /\ Len(main_ds) = Len(run[r].main_rows) + 2

(* No path of the repository has prefix pending/ and suffix .jsonl. *)
NoStagingEntry ==
    \A p \in DOMAIN staging : ~(p.dirs # <<>> /\ Head(p.dirs) = "pending" /\ p.ext = ".jsonl")

\* C20: a run whose listing succeeds and holds no path with prefix pending/ and
\* suffix .jsonl ends at once as done, having loaded and pushed nothing, with the
\* main dataset, the staging namespace and the history unchanged.
C20_NothingToDo ==
    [][\A r \in Runners :
          (Ended(r) /\ run'[r] # run[r] /\ run'[r].pc # "aborted" /\ NoStagingEntry)
          => /\ run'[r].pc = "done"
             /\ ~run'[r].loaded
             /\ ~run'[r].pushed
             /\ main_ds' = main_ds
             /\ staging' = staging
             /\ history' = history]_vars

C20_Witness ==
    \E r \in Runners :
        /\ nruns >= 1
        /\ run[r].pc = "done"
        /\ run[r].pending = <<>>
        /\ DOMAIN staging = {NotesPath}
        /\ ~run[r].loaded
        /\ history = <<>>

\* C14 as stated: the message formatted from instant T and count N, parsed as the
\* status side parses it, gives back both T and N.
C14_RoundTripTimeAndCount ==
    status.phase = "parsed"
    => /\ status.last_merge.found
       /\ status.last_merge.dt.t = clock
       /\ "n" \in DOMAIN status.last_merge
       /\ status.last_merge.n = status.N

\* C14 amended: the parse gives back T exactly, as a UTC instant at second
\* resolution; what the status side returns holds a datetime and an error text
\* and no count.
C14_RoundTripTime ==
    status.phase = "parsed"
    => /\ status.last_merge.found
       /\ status.last_merge.dt.t = clock
       /\ status.last_merge.dt.aware
       /\ status.last_merge.err = ""
       /\ DOMAIN status.last_merge = {"found", "dt", "err"}
       /\ Head(history).message.n = status.N

C14_Witness ==
    /\ status.phase = "parsed"
    /\ status.N >= 2
    /\ strftime(clock).d = 1 /\ strftime(clock).h = 23
    /\ strftime(clock).m = 59 /\ strftime(clock).s = 59
    /\ status.last_merge.found
    /\ status.last_merge.dt.t = clock

(* How often a record occurs in a dataset. *)
Occurrences(rec, rows) == Cardinality({i \in 1..Len(rows) : rows[i] = rec})

(* Run r listed before run q published, and loaded the main dataset after it. *)
Overlapped(r, q) ==
    /\ run[q].pushed
    /\ run[r].histAtList < run[q].histAtPush
    /\ run[q].histAtPush <= run[r].histAtLoad

\* C12: when a run publishes after another run, which it overlapped, has
\* published a record both fetched, the main dataset holds that record twice:
\* nothing keeps the second run from merging what the first already merged.
C12_OverlapDoubleMerges ==
    [][\A r \in Runners2 : \A q \in Runners2 \ {r} :
          (Published(r) /\ Overlapped(r, q))
          => \A rec \in Range(Flatten(run[r].fetched)) \cap Range(Flatten(run[q].fetched)) :
                Occurrences(rec, main_ds') >= 2]_vars

C12_Witness ==
    \E r \in Runners2 : \E q \in Runners2 \ {r} :
        /\ run[r].pushed /\ run[q].pushed
        /\ Overlapped(r, q)
        /\ run[q].histAtList < run[r].histAtPush
        /\ run[r].pending = run[q].pending
        /\ \E p \in Range(run[r].pending) :
              /\ p \in DOMAIN staging
              /\ Len(staging[p]) = 1
              /\ Occurrences(staging[p][1], main_ds) = 2

(* The run listed at least one path and every listed path decodes to no record. *)
ListedEmpty(r) ==
    /\ run[r].pending # <<>>
    /\ \A p \in Range(run[r].pending) : p \in DOMAIN staging /\ staging[p] = <<>>

\* C21: a run whose listed entries hold no record at all never reaches the
\* publish or the cleanup and changes neither the main dataset nor the staging
\* namespace nor the history; the next run lists the same paths again; and while
\* the repository is in that state a status refresh never answers Idle.
C21_EmptyBatchStaysPending ==
    [][/\ \A r \in Runners :
             (ListedEmpty(r) /\ ~Ended(r) /\ run'[r] # run[r])
             => /\ run'[r].pc \notin {"push", "cleanup", "crashed"}
                /\ ~run'[r].pushed
                /\ main_ds' = main_ds
                /\ staging' = staging
                /\ history' = history
       /\ \A r \in Runners :
             (ListedEmpty(r) /\ run[r].pc = "done" /\ run'[r] # run[r] /\ run'[r].pc # "aborted")
             => run'[r].pending = run[r].pending
       /\ (status' # status /\ \E r \in Runners : ListedEmpty(r) /\ Ended(r))
             => status'.out.state \in {"Pending", "Processing", "Unknown", "Error"}]_vars

C21_Witness ==
    \E r \in Runners :
        /\ nruns = 2
        /\ ListedEmpty(r)
        /\ run[r].pc = "done"
        /\ run[r].loaded
        /\ main_ds = run[r].main_rows
        /\ history = <<>>
        /\ status.asked
        /\ status.api.listing.ok
        /\ status.api.listing.count = Len(run[r].pending)
        /\ status.out.state = "Pending"

====
